---- MODULE Spec2Model ----
(***************************************************************************)
(* resume-tailor: the browser-side switching and rendering core.           *)
(*   resume switcher  (src/unnamed/part_000)                               *)
(*   resume renderer  (src/unnamed/part_001)                               *)
(*   theme switcher   (src/js/theme-switcher.js)                           *)
(* One page runs one event loop: every action below is one turn of it (a   *)
(* DOM event handler, a timer callback, or the continuation of an await).  *)
(***************************************************************************)
EXTENDS Integers, Sequences, FiniteSets, TLC

(* ------------------------------ values -------------------------------- *)

\* JavaScript null / a missing query parameter / a missing storage item.
Null == "null"

\* The hardcoded example resume (fallback manifest, fallback initial resume,
\* the renderer's default path).
ExamplePath == "resources/example/resume-data.json"

\* jsonFile values a generated manifest can list, and a path no manifest lists.
ResumeFiles == {"a.json", "b.json"}
UnknownFile == "x.json"

\* The pages followed: one that includes the resume switcher and the resume
\* renderer, one that includes the theme switcher, and one that includes the
\* renderer alone (it shows the default resume). The two sides share no
\* state: each has its own fields, its own storage item, its own query
\* parameter and its own events, and neither listens to the other's.
PageScripts ==
  {{"resume-switcher", "resume-renderer"}, {"theme-switcher"}, {"resume-renderer"}}

\* Bounds of the model.
MaxManifest == 2
MaxUserChanges == 1
MaxLoads == 3

\* JavaScript truthiness of a string-or-null value.
Truthy(v) == v # Null /\ v # ""

Range(s) == {s[i] : i \in 1..Len(s)}

\* The manifests data/resumes.json can hold: the jsonFile values of its
\* entries in declared order, each path at most once.
Manifests ==
  {m \in UNION {[1..n -> ResumeFiles] : n \in 0..MaxManifest} :
     \A i, j \in 1..Len(m) : i # j => m[i] # m[j]}

\* What the page URL's resume parameter and the selectedResume storage item can
\* hold when a chain of page loads starts.
UrlValues == {Null, ""} \cup ResumeFiles \cup {UnknownFile, ExamplePath}
StoredValues == {Null} \cup ResumeFiles \cup {UnknownFile, ExamplePath}

\* Outcomes of fetch(): a 2xx answer with a parsable body, or a failure
\* (transport error, non-2xx status, unparsable body).
FetchFailures == {"transport", "status", "parse"}

\* What fetch("data/resumes.json") can settle to.
ManifestResponses ==
  {[kind |-> "ok", body |-> m] : m \in Manifests}
    \cup {[kind |-> f, body |-> <<>>] : f \in FetchFailures}

\* A theme path ("dark/theme", "dark", "dark/theme.css") is kept as what
\* split("/") makes of it: its segments in order. A segment is its text without
\* a trailing ".css" and whether it has that suffix. NullTheme is null.
Seg(stem) == [stem |-> stem, css |-> FALSE]
CssSeg(stem) == [stem |-> stem, css |-> TRUE]
NullTheme == <<>>

\* Theme names a generated data/themes.json can list, and the theme manifests.
ThemeNames == {"dark", "light"}
MaxThemes == 2
ThemeManifests ==
  {m \in UNION {[1..n -> ThemeNames] : n \in 0..MaxThemes} :
     \A i, j \in 1..Len(m) : i # j => m[i] # m[j]}
ThemeResponses ==
  {[kind |-> "ok", body |-> m] : m \in ThemeManifests}
    \cup {[kind |-> f, body |-> <<>>] : f \in FetchFailures}

\* What the theme query parameter and the selectedTheme storage item can hold:
\* nothing, a dropdown value, a bare theme name, a name with an explicit file
\* (with or without ".css"), and the key of a theme no manifest lists.
ThemeKeys ==
  {<<Seg(n), Seg("theme")>> : n \in ThemeNames}
    \cup {<<Seg("dark")>>, <<Seg("dark"), CssSeg("theme")>>, <<Seg("dark"), Seg("pdf")>>,
          <<Seg("neon"), Seg("theme")>>}
ThemeInputs == {NullTheme} \cup ThemeKeys
MaxThemeChanges == 2

NullThemes == [version |-> Null, themes |-> <<>>]
NoThemeEvent ==
  [type |-> Null, themePath |-> NullTheme, themeName |-> Seg(""), themeFile |-> Seg(""),
   fullPath |-> <<>>, seenCurrent |-> NullTheme, seenStored |-> NullTheme]
NoInitialTheme ==
  [called |-> FALSE, param |-> NullTheme, stored |-> NullTheme, chosen |-> NullTheme]

\* document.readyState when the page's scripts run, and which of the renderer's
\* start triggers are then still to come: the DOMContentLoaded listener when
\* that event has not fired yet, the 1 ms timer when the document is already
\* interactive or complete.
ReadyStates == {"loading", "interactive", "complete"}
TriggersAt(state, loaded) ==
  (IF loaded THEN {} ELSE {"DOMContentLoaded"})
    \cup (IF state \in {"interactive", "complete"} THEN {"timer"} ELSE {})

\* A resume document, as far as renderResume walks its collections: the
\* experience entries (their role), the keys of the skills object in the order
\* the JSON text lists them, the qualities (their text), and the education and
\* project entries.
MaxEntries == 2
MaxOther == 1
MaxPrints == 2
JobRoles == {"engineer", "lead"}
\* Skill category names; "2024" is an integer-like property name.
SkillKeys == {"languages", "2024"}
IndexKeys == {"2024"}
\* Quality texts; the second one contains markup.
InjectedPill == "<span class=\"pill\">x</span>"
QualityTexts == {"calm", InjectedPill}
SeqsUpTo(S, n) == UNION {[1..k -> S] : k \in 0..n}
Documents ==
  [experience : SeqsUpTo(JobRoles, MaxEntries),
   skills : {k \in SeqsUpTo(SkillKeys, MaxEntries) :
               \A i, j \in 1..Len(k) : i # j => k[i] # k[j]},
   qualities : SeqsUpTo(QualityTexts, MaxEntries),
   education : SeqsUpTo({"degree"}, MaxOther),
   projects : SeqsUpTo({"paper"}, MaxOther)]
\* The document a page with a switcher is followed with.
DefaultDocument ==
  [experience |-> <<"engineer">>, skills |-> <<"languages">>, qualities |-> <<"calm">>,
   education |-> <<"degree">>, projects |-> <<"paper">>]

\* No loadResumeData call has completed yet.
NoLoad == [response |-> Null, returned |-> Null, diagnostic |-> FALSE, raised |-> FALSE]

NullData == [version |-> Null, resumes |-> <<>>]
NoEvent == [type |-> Null, resumePath |-> Null, seenCurrent |-> Null, seenStored |-> Null]
NoInitial == [called |-> FALSE, param |-> Null, stored |-> Null, chosen |-> Null]

(* ------------------------------- state -------------------------------- *)

VARIABLES
  scripts,               \* which of the three scripts the page includes
  readyState,            \* document.readyState when the scripts run
  domContentLoaded,      \* DOMContentLoaded had fired by then
  served,                \* the resume document the server answers with
  \* the chain of page loads and what survives a load
  pageLoad,              \* index of the current page load in the chain
  resumeParam,           \* the resume parameter of window.location.search
  storedResume,          \* localStorage selectedResume
  rendererEver,          \* a renderer was registered on some load of the chain
  userChanges,           \* user-driven changeResume calls so far (bounded)
  \* ResumeSwitcher
  switcherPc,            \* "none" | "fetching" (init awaits the manifest) |
                         \* "initialized" | "failed" (init ended in its catch)
  resumesData,           \* this.resumesData
  manifestFailed,        \* loadResumesData took its catch branch
  selectOptions,         \* option values of #resumeSelect, in order
  selectValue,           \* #resumeSelect.value
  currentResume,         \* this.currentResume
  readyListener,         \* the resumeRendererReady listener is subscribed
  readyHandled,          \* that listener has run
  readyBeforeWatchdog,   \* it ran while the watchdog was still armed
  watchdog,              \* "unset" | "armed" | "fired"
  lastInitial,           \* what the last setInitialResume call read and chose
  \* ResumeRenderer
  startTriggers,         \* start triggers of the renderer still to fire
  constructions,         \* ResumeRenderer objects constructed on this page
  slotAssigns,           \* assignments to window.resumeRenderer on this page
  resumeRenderer,        \* the module-level resumeRenderer is constructed
  windowResumeRenderer,  \* window.resumeRenderer is set
  currentResumeData,     \* this.currentResumeData (the path it was fetched from)
  containerMarkup,       \* what #resume shows (the path it was rendered from)
  markup,                \* the elements of #resume's markup, in document order
  fetches,               \* loadResumeData calls awaiting their fetch, in call order
  lastLoad,              \* how the last loadResumeData call to complete ended
  printOptimized,        \* #resume carries the print-optimized class
  hinted,                \* the elements of markup with pageBreakInside "avoid"
  spaced,                \* the elements of markup with the print-spacing class
  printStage,            \* "idle" | "optimized" | "restored"
  prints,                \* beforeprint events so far (bounded)
  renders,               \* renders completed on this page
  readyDispatched,       \* resumeRendererReady events dispatched on this page
  rendersAtReady,        \* renders completed when resumeRendererReady was dispatched
  \* effects of changeResume on this page
  delegations,           \* renderer.loadResumeData calls made by the switcher
  initDelegations,       \* those made from within setInitialResume
  errorPanels,           \* .resume-error panels prepended
  locationAssigns,       \* assignments to window.location.href
  pendingNav,            \* the resume parameter of the navigation under way
  storageWrites,         \* localStorage.setItem("selectedResume", ...) calls
  eventCount,            \* resumeChanged events dispatched
  lastEvent,             \* the last one, with what a listener saw when it ran
  \* ThemeSwitcher and what it reads
  themeParam,            \* the theme parameter of window.location.search
  storedTheme,           \* localStorage selectedTheme
  pdfHandler,            \* window.pdfHandler is set
  themeChanges,          \* user-driven changeTheme calls so far (bounded)
  themePc,               \* "none" | "fetching" | "initialized" | "failed"
  themesData,            \* this.themesData
  themeManifestFailed,   \* loadThemesData took its catch branch
  themeOptions,          \* option values of #themeSelect, in order
  themeSelectValue,      \* #themeSelect.value
  currentTheme,          \* this.currentTheme
  stylesheetHref,        \* #theme-stylesheet href, as assigned
  bodyDataTheme,         \* document.body data-theme
  themeStorageWrites,    \* localStorage.setItem("selectedTheme", ...) calls
  themeEventCount,       \* themeChanged events dispatched
  lastThemeEvent,        \* the last one, with what a listener saw when it ran
  lastInitialTheme,      \* what the last setInitialTheme call read and chose
  themeErrors            \* exceptions that left changeTheme

\* What the switcher's synchronous methods may write (see Commit).
worldVars == <<storedResume, selectValue, currentResume, lastInitial, fetches,
               delegations, initDelegations, errorPanels, locationAssigns, pendingNav,
               storageWrites, eventCount, lastEvent>>
chainRest == <<pageLoad, resumeParam, rendererEver>>
switcherRest == <<switcherPc, resumesData, manifestFailed, selectOptions, readyListener,
                  readyHandled, readyBeforeWatchdog, watchdog>>
printVars == <<printOptimized, hinted, spaced, printStage, prints>>
rendererRest == <<startTriggers, constructions, slotAssigns, resumeRenderer,
                  windowResumeRenderer, currentResumeData,
                  containerMarkup, markup, lastLoad, renders, readyDispatched,
                  rendersAtReady, printVars>>
documentVars == <<scripts, readyState, domContentLoaded, served>>
resumeVars == <<worldVars, chainRest, userChanges, switcherRest, rendererRest>>

\* What the theme switcher's synchronous methods may write (see CommitTheme).
themeWorldVars == <<storedTheme, themeSelectValue, currentTheme, stylesheetHref,
                    bodyDataTheme, themeStorageWrites, themeEventCount, lastThemeEvent,
                    lastInitialTheme, themeErrors>>
themeRest == <<themeParam, pdfHandler, themePc, themesData, themeManifestFailed,
               themeOptions>>
themeVars == <<themeWorldVars, themeRest, themeChanges>>

vars == <<documentVars, resumeVars, themeVars>>

\* The part of the state the switcher's synchronous methods read and write.
World ==
  [resumeParam |-> resumeParam, storedResume |-> storedResume,
   resumesData |-> resumesData, selectOptions |-> selectOptions,
   selectValue |-> selectValue, currentResume |-> currentResume,
   lastInitial |-> lastInitial, windowResumeRenderer |-> windowResumeRenderer,
   fetches |-> fetches, delegations |-> delegations,
   initDelegations |-> initDelegations, errorPanels |-> errorPanels,
   locationAssigns |-> locationAssigns, pendingNav |-> pendingNav,
   storageWrites |-> storageWrites,
   eventCount |-> eventCount, lastEvent |-> lastEvent]

\* Write a world back (resumeParam, resumesData, selectOptions and
\* windowResumeRenderer are written by the actions themselves).
Commit(w) ==
  /\ storedResume' = w.storedResume
  /\ selectValue' = w.selectValue
  /\ currentResume' = w.currentResume
  /\ lastInitial' = w.lastInitial
  /\ fetches' = w.fetches
  /\ delegations' = w.delegations
  /\ initDelegations' = w.initDelegations
  /\ errorPanels' = w.errorPanels
  /\ locationAssigns' = w.locationAssigns
  /\ pendingNav' = w.pendingNav
  /\ storageWrites' = w.storageWrites
  /\ eventCount' = w.eventCount
  /\ lastEvent' = w.lastEvent

(* -------------------------- ResumeSwitcher ---------------------------- *)

\* loadResumesData, lines 77-82: the manifest a successful fetch stores.
LoadedData(m) == [version |-> "1.0", resumes |-> m]

\* Mutant: the fallback data lists no resume (as the theme fallback does).
FallbackData_Empty == [version |-> "fallback", resumes |-> <<>>]

\* loadResumesData, lines 86-98: the minimal fallback data of the catch branch.
FallbackData == [version |-> "fallback", resumes |-> <<ExamplePath>>]

\* loadResumesData: what it leaves in this.resumesData for a settled fetch,
\* whether it took the catch branch, and whether an exception left it.
loadResumesData(response) ==
  IF response.kind = "ok"
  THEN [data |-> LoadedData(response.body), failed |-> FALSE, raised |-> FALSE]
  ELSE [data |-> FallbackData, failed |-> TRUE, raised |-> FALSE]

\* populateResumeOptions: one option per entry, value = jsonFile.
populateResumeOptions(data) == data.resumes

\* Assigning select.value: the option with that value becomes selected; when no
\* option has it, none is selected and the value reads "".
SelectAssign(options, v) == IF v \in Range(options) THEN v ELSE ""

\* A freshly populated select shows its first option.
SelectDefault(options) == IF Len(options) > 0 THEN options[1] ELSE ""

resumeExists(w, resumePath) ==
  IF w.resumesData = NullData THEN FALSE
  ELSE \E i \in 1..Len(w.resumesData.resumes) : w.resumesData.resumes[i] = resumePath

\* changeResume, lines 263-269: dispatch resumeChanged; its listeners run now
\* and see the state as it is at this point.
dispatchResumeChanged(w, resumePath) ==
  [w EXCEPT !.eventCount = @ + 1,
            !.lastEvent = [type |-> "resumeChanged", resumePath |-> resumePath,
                           seenCurrent |-> w.currentResume,
                           seenStored |-> w.storedResume]]

\* changeResume, lines 232-259: delegate to the renderer, or reload once with
\* ?resume=..., or show the error panel.
\* Mutant: the reload is not guarded by the resume parameter.
renderOrRecover_AlwaysReload(w, resumePath) ==
  IF w.windowResumeRenderer
  THEN [w EXCEPT !.fetches = Append(@, resumePath), !.delegations = @ + 1]
  ELSE [w EXCEPT !.pendingNav = resumePath, !.locationAssigns = @ + 1]

renderOrRecover(w, resumePath) ==
  IF w.windowResumeRenderer
  THEN [w EXCEPT !.fetches = Append(@, resumePath), !.delegations = @ + 1]
  ELSE IF ~Truthy(w.resumeParam)
       THEN [w EXCEPT !.pendingNav = resumePath, !.locationAssigns = @ + 1]
       ELSE [w EXCEPT !.errorPanels = @ + 1]

\* Mutant: the "already active" check is missing.
changeResume_NoSkip(w, resumePath) ==
  LET w1 == [w EXCEPT !.currentResume = resumePath]
      w2 == [w1 EXCEPT !.storedResume = resumePath, !.storageWrites = @ + 1]
      w3 == renderOrRecover(w2, resumePath)
  IN dispatchResumeChanged(w3, resumePath)

\* Mutant: resumeChanged is dispatched before the selection is persisted.
changeResume_DispatchFirst(w, resumePath) ==
  IF w.currentResume = resumePath THEN w
  ELSE LET w1 == [w EXCEPT !.currentResume = resumePath]
           w2 == dispatchResumeChanged(w1, resumePath)
           w3 == [w2 EXCEPT !.storedResume = resumePath, !.storageWrites = @ + 1]
       IN renderOrRecover(w3, resumePath)

\* Mutant: the selection is not written to localStorage.
changeResume_NoPersist(w, resumePath) ==
  IF w.currentResume = resumePath THEN w
  ELSE LET w1 == [w EXCEPT !.currentResume = resumePath]
           w3 == renderOrRecover(w1, resumePath)
       IN dispatchResumeChanged(w3, resumePath)

\* Mutant: the error-panel branch returns without dispatching resumeChanged.
changeResume_SilentPanel(w, resumePath) ==
  IF w.currentResume = resumePath THEN w
  ELSE LET w1 == [w EXCEPT !.currentResume = resumePath]
           w2 == [w1 EXCEPT !.storedResume = resumePath, !.storageWrites = @ + 1]
           w3 == renderOrRecover(w2, resumePath)
       IN IF w3.errorPanels > w2.errorPanels THEN w3
          ELSE dispatchResumeChanged(w3, resumePath)

changeResume(w, resumePath) ==
  IF w.currentResume = resumePath THEN w
  ELSE LET w1 == [w EXCEPT !.currentResume = resumePath]
           w2 == [w1 EXCEPT !.storedResume = resumePath, !.storageWrites = @ + 1]
           w3 == renderOrRecover(w2, resumePath)
       IN dispatchResumeChanged(w3, resumePath)

\* Mutant: localStorage is consulted before the URL parameter.
initialResume_StorageFirst(w) ==
  IF Truthy(w.storedResume) /\ resumeExists(w, w.storedResume) THEN w.storedResume
  ELSE IF Truthy(w.resumeParam) /\ resumeExists(w, w.resumeParam) THEN w.resumeParam
  ELSE IF Len(w.resumesData.resumes) > 0 THEN w.resumesData.resumes[1]
  ELSE ExamplePath

\* setInitialResume, lines 168-195: the initial resume.
initialResume(w) ==
  IF Truthy(w.resumeParam) /\ resumeExists(w, w.resumeParam) THEN w.resumeParam
  ELSE IF Truthy(w.storedResume) /\ resumeExists(w, w.storedResume) THEN w.storedResume
  ELSE IF Len(w.resumesData.resumes) > 0 THEN w.resumesData.resumes[1]
  ELSE ExamplePath

setInitialResume(w) ==
  LET chosen == initialResume(w)
      w1 == changeResume(w, chosen)
  IN [w1 EXCEPT !.selectValue = SelectAssign(w.selectOptions, chosen),
                !.initDelegations = @ + (w1.delegations - w.delegations),
                !.lastInitial = [called |-> TRUE, param |-> w.resumeParam,
                                 stored |-> w.storedResume, chosen |-> chosen]]

(* --------------------------- ThemeSwitcher ---------------------------- *)

\* The part of the state the theme switcher's synchronous methods read and
\* write; threw says an exception is propagating out of the call.
ThemeWorld ==
  [themeParam |-> themeParam, storedTheme |-> storedTheme, pdfHandler |-> pdfHandler,
   themesData |-> themesData, themeOptions |-> themeOptions,
   themeSelectValue |-> themeSelectValue, currentTheme |-> currentTheme,
   stylesheetHref |-> stylesheetHref, bodyDataTheme |-> bodyDataTheme,
   themeStorageWrites |-> themeStorageWrites, themeEventCount |-> themeEventCount,
   lastThemeEvent |-> lastThemeEvent, lastInitialTheme |-> lastInitialTheme,
   themeErrors |-> themeErrors, threw |-> FALSE]

CommitTheme(t) ==
  /\ storedTheme' = t.storedTheme
  /\ themeSelectValue' = t.themeSelectValue
  /\ currentTheme' = t.currentTheme
  /\ stylesheetHref' = t.stylesheetHref
  /\ bodyDataTheme' = t.bodyDataTheme
  /\ themeStorageWrites' = t.themeStorageWrites
  /\ themeEventCount' = t.themeEventCount
  /\ lastThemeEvent' = t.lastThemeEvent
  /\ lastInitialTheme' = t.lastInitialTheme
  /\ themeErrors' = t.themeErrors

\* The value of a select with no selected option, "", as a theme path.
EmptyTheme == <<Seg("")>>

\* loadThemesData, lines 55-60 and 64-69.
LoadedThemes(m) == [version |-> "1.0", themes |-> m]
FallbackThemes == [version |-> "fallback", themes |-> <<>>]

loadThemesData(response) ==
  IF response.kind = "ok"
  THEN [data |-> LoadedThemes(response.body), failed |-> FALSE, raised |-> FALSE]
  ELSE [data |-> FallbackThemes, failed |-> TRUE, raised |-> FALSE]

\* populateThemeOptions: one option per theme, value = `${theme.name}/theme`.
populateThemeOptions(data) ==
  [i \in 1..Len(data.themes) |-> <<Seg(data.themes[i]), Seg("theme")>>]

SelectAssignTheme(options, v) == IF v \in Range(options) THEN v ELSE EmptyTheme
SelectDefaultTheme(options) == IF Len(options) > 0 THEN options[1] ELSE EmptyTheme

themeExists(t, themePath) ==
  IF t.themesData = NullThemes THEN FALSE
  ELSE LET themeName == themePath[1]
       IN \E i \in 1..Len(t.themesData.themes) : Seg(t.themesData.themes[i]) = themeName

\* changeTheme, lines 206-232: the theme name and the file name with ".css".
parseThemePath(themePath) ==
  LET slash == Len(themePath) > 1
      name == IF slash THEN themePath[1] ELSE Seg("cyberpunk")
      file == IF slash THEN themePath[2] ELSE Seg("theme")
  IN [themeName |-> name,
      themeFile |-> IF file.css THEN file ELSE [file EXCEPT !.css = TRUE]]

\* changeTheme, line 235: `${cssBasePath}${themeName}/${themeFile}`.
fullPathOf(parsed) == <<Seg("css"), parsed.themeName, parsed.themeFile>>

\* changeTheme, lines 254-263: dispatch themeChanged; its listeners run now.
dispatchThemeChanged(t, themePath, parsed) ==
  [t EXCEPT !.themeEventCount = @ + 1,
            !.lastThemeEvent =
               [type |-> "themeChanged", themePath |-> themePath,
                themeName |-> parsed.themeName, themeFile |-> parsed.themeFile,
                fullPath |-> fullPathOf(parsed),
                seenCurrent |-> t.currentTheme, seenStored |-> t.storedTheme]]

\* changeTheme, lines 265-268: this.updatePDFToggleState is not a method of
\* the class, so the call raises a TypeError when window.pdfHandler is set.
updatePDFToggle(t) ==
  IF t.pdfHandler THEN [t EXCEPT !.threw = TRUE, !.themeErrors = @ + 1] ELSE t

changeTheme(t, themePath) ==
  IF t.currentTheme = themePath THEN t
  ELSE LET parsed == parseThemePath(themePath)
           t1 == [t EXCEPT !.stylesheetHref = fullPathOf(parsed)]
           t2 == [t1 EXCEPT !.bodyDataTheme = parsed.themeName]
           t3 == [t2 EXCEPT !.currentTheme = themePath]
           t4 == [t3 EXCEPT !.storedTheme = themePath, !.themeStorageWrites = @ + 1]
           t5 == dispatchThemeChanged(t4, themePath, parsed)
       IN updatePDFToggle(t5)

\* Mutant: localStorage is consulted before the URL parameter.
initialTheme_StorageFirst(t) ==
  IF t.storedTheme # NullTheme /\ themeExists(t, t.storedTheme) THEN t.storedTheme
  ELSE IF t.themeParam # NullTheme /\ themeExists(t, t.themeParam) THEN t.themeParam
  ELSE IF Len(t.themesData.themes) > 0
       THEN <<Seg(t.themesData.themes[1]), Seg("theme")>>
  ELSE <<Seg("cyberpunk"), Seg("theme")>>

\* setInitialTheme, lines 147-173: the initial theme.
initialTheme(t) ==
  IF t.themeParam # NullTheme /\ themeExists(t, t.themeParam) THEN t.themeParam
  ELSE IF t.storedTheme # NullTheme /\ themeExists(t, t.storedTheme) THEN t.storedTheme
  ELSE IF Len(t.themesData.themes) > 0
       THEN <<Seg(t.themesData.themes[1]), Seg("theme")>>
  ELSE <<Seg("cyberpunk"), Seg("theme")>>

\* setInitialTheme: an exception out of changeTheme skips the select update.
setInitialTheme(t) ==
  LET chosen == initialTheme(t)
      t1 == [changeTheme(t, chosen) EXCEPT
               !.lastInitialTheme = [called |-> TRUE, param |-> t.themeParam,
                                     stored |-> t.storedTheme, chosen |-> chosen]]
  IN IF t1.threw THEN t1
     ELSE [t1 EXCEPT !.themeSelectValue = SelectAssignTheme(t.themeOptions, chosen)]

\* String.includes("pdf") on the texts the model's segments have.
IncludesPdf(themePath) == \E i \in 1..Len(themePath) : themePath[i].stem = "pdf"

getCurrentThemeInfo ==
  [name |-> currentTheme,
   isPdf |-> IF currentTheme = NullTheme THEN FALSE ELSE IncludesPdf(currentTheme),
   path |-> stylesheetHref]

\* DOMContentLoaded: new ThemeSwitcher(); init() runs up to its first await.
ConstructThemeSwitcher ==
  /\ "theme-switcher" \in scripts
  /\ ~domContentLoaded
  /\ themePc = "none"
  /\ themePc' = "fetching"
  /\ UNCHANGED <<themeWorldVars, themeParam, pdfHandler, themesData,
                 themeManifestFailed, themeOptions, themeChanges>>
  /\ UNCHANGED <<documentVars, resumeVars>>

\* The rest of init(), once fetch("data/themes.json") has settled: the end of
\* loadThemesData, populateThemeOptions, setupEventListeners, setInitialTheme;
\* an exception ends init() in its catch (line 40).
ThemeManifestSettles ==
  \E response \in ThemeResponses :
    LET loaded == loadThemesData(response)
        options == populateThemeOptions(loaded.data)
        t0 == [ThemeWorld EXCEPT !.themesData = loaded.data, !.themeOptions = options,
                                 !.themeSelectValue = SelectDefaultTheme(options)]
        t1 == setInitialTheme(t0)
    IN /\ themePc = "fetching"
       /\ themeManifestFailed' = loaded.failed
       /\ IF loaded.raised
          THEN /\ themePc' = "failed"
               /\ CommitTheme(ThemeWorld)
               /\ UNCHANGED <<themesData, themeOptions>>
          ELSE /\ themePc' = IF t1.threw THEN "failed" ELSE "initialized"
               /\ themesData' = loaded.data
               /\ themeOptions' = options
               /\ CommitTheme(t1)
       /\ UNCHANGED <<themeParam, pdfHandler, themeChanges>>
       /\ UNCHANGED <<documentVars, resumeVars>>

\* Mutant: the theme switcher persists under the resume switcher's key too.
ThemeSelectChange_SharedKey ==
  \E v \in Range(themeOptions) :
    /\ themePc \in {"initialized", "failed"}
    /\ themesData # NullThemes
    /\ themeChanges < MaxThemeChanges
    /\ v # themeSelectValue
    /\ themeChanges' = themeChanges + 1
    /\ CommitTheme(changeTheme([ThemeWorld EXCEPT !.themeSelectValue = v], v))
    /\ UNCHANGED themeRest
    /\ Commit([World EXCEPT !.storedResume = "theme"])
    /\ UNCHANGED <<documentVars, chainRest, userChanges, switcherRest, rendererRest>>

\* The change listener of #themeSelect: the user picks another option.
ThemeSelectChange ==
  \E v \in Range(themeOptions) :
    /\ themePc \in {"initialized", "failed"}
    /\ themesData # NullThemes
    /\ themeChanges < MaxThemeChanges
    /\ v # themeSelectValue
    /\ themeChanges' = themeChanges + 1
    /\ CommitTheme(changeTheme([ThemeWorld EXCEPT !.themeSelectValue = v], v))
    /\ UNCHANGED themeRest
    /\ UNCHANGED <<documentVars, resumeVars>>

\* window.changeTheme(), the backward-compatible entry point used by inline
\* markup: changeTheme(select.value) for the option the select shows.
LegacyChangeTheme ==
  /\ themePc \in {"initialized", "failed"}
  /\ themesData # NullThemes
  /\ themeChanges < MaxThemeChanges
  /\ themeSelectValue \in Range(themeOptions)
  /\ themeChanges' = themeChanges + 1
  /\ CommitTheme(changeTheme(ThemeWorld, themeSelectValue))
  /\ UNCHANGED themeRest
  /\ UNCHANGED <<documentVars, resumeVars>>

(* --------------------------- ResumeRenderer --------------------------- *)

\* What a settled fetch of a resume document can be: a well-formed document, a
\* failure, or a parsable document that lacks a field renderResume dereferences.
ResumeResponses == {"ok", "malformed"} \cup FetchFailures

\* The renderer's fields and its container.
Renderer ==
  [currentResumeData |-> currentResumeData, containerMarkup |-> containerMarkup,
   markup |-> markup, renders |-> renders, printOptimized |-> printOptimized,
   hinted |-> hinted, spaced |-> spaced]

El(el, text) == [el |-> el, text |-> text]

\* Object.keys: integer-like property names come first (ascending; the model has
\* one), then the other names in the order they were created.
ObjectKeys(keys) ==
  SelectSeq(keys, LAMBDA k : k \in IndexKeys) \o SelectSeq(keys, LAMBDA k : k \notin IndexKeys)

\* renderResume, lines 102-104: the first letter in upper case, "_" as " ".
Title(category) == IF category = "languages" THEN "Languages" ELSE category

\* A text is interpolated as it is: the elements its own markup spells become
\* elements of the result.
ElementsIn(text) == IF text = InjectedPill THEN <<El("span.pill", "x")>> ELSE <<>>

RECURSIVE Flatten(_)
Flatten(ss) == IF ss = <<>> THEN <<>> ELSE Head(ss) \o Flatten(Tail(ss))

\* renderResume, lines 81-169: the elements of the markup it assigns to the
\* container, in document order: the sidebar (personal details, one section
\* per skill category, the qualities section with one pill per quality) and
\* the main column (three cards; one article per experience entry, one div per
\* education entry and per project).
Template(data) ==
  LET keys == ObjectKeys(data.skills)
  IN <<El("div.section", "Personal Details")>>
       \o [i \in 1..Len(keys) |-> El("div.section", Title(keys[i]))]
       \o <<El("div.section", "Qualities")>>
       \o Flatten([i \in 1..Len(data.qualities) |->
                     <<El("span.pill", data.qualities[i])>>
                       \o ElementsIn(data.qualities[i])])
       \o <<El("section.card", "Professional Summary"), El("section.card", "Experience")>>
       \o [i \in 1..Len(data.experience) |-> El("article.job", data.experience[i])]
       \o <<El("section.card", "Education")>>
       \o [i \in 1..Len(data.education) |-> El("div.job", data.education[i])]
       \o [i \in 1..Len(data.projects) |-> El("div.job", data.projects[i])]

\* renderResume: the container's markup is replaced by the last statement, so
\* a TypeError raised while the templates are evaluated leaves it as it was.
\* (The elements are new ones: none carries a hint or a class of the old.)
renderResume(r, resumePath, response) ==
  IF response = "malformed"
  THEN [renderer |-> r, threw |-> TRUE]
  ELSE [renderer |-> [r EXCEPT !.containerMarkup = resumePath,
                               !.markup = Template(served), !.renders = @ + 1,
                               !.hinted = {}, !.spaced = {}],
        threw |-> FALSE]

\* getFallbackResumeData: an empty object.
getFallbackResumeData == "empty"

\* Mutant: a failed fetch blanks the renderer.
loadResumeData_Blank(r, resumePath, response) ==
  IF response \in FetchFailures
  THEN [renderer |-> [r EXCEPT !.currentResumeData = Null, !.containerMarkup = Null,
                               !.markup = <<>>, !.hinted = {}, !.spaced = {}],
        returned |-> getFallbackResumeData, diagnostic |-> TRUE, raised |-> FALSE]
  ELSE LET r1 == [r EXCEPT !.currentResumeData = resumePath]
           rendered == renderResume(r1, resumePath, response)
       IN IF rendered.threw
          THEN [renderer |-> r1, returned |-> getFallbackResumeData,
                diagnostic |-> TRUE, raised |-> FALSE]
          ELSE [renderer |-> rendered.renderer, returned |-> "data",
                diagnostic |-> FALSE, raised |-> FALSE]

\* loadResumeData after its await: the try block up to the first exception
\* (a rejected fetch, a non-2xx status, an unparsable body, or a TypeError out
\* of renderResume, which is called inside the try), then the catch block.
loadResumeData(r, resumePath, response) ==
  IF response \in FetchFailures
  THEN [renderer |-> r, returned |-> getFallbackResumeData, diagnostic |-> TRUE,
        raised |-> FALSE]
  ELSE LET r1 == [r EXCEPT !.currentResumeData = resumePath]
           rendered == renderResume(r1, resumePath, response)
       IN IF rendered.threw
          THEN [renderer |-> r1, returned |-> getFallbackResumeData,
                diagnostic |-> TRUE, raised |-> FALSE]
          ELSE [renderer |-> rendered.renderer, returned |-> "data",
                diagnostic |-> FALSE, raised |-> FALSE]

\* querySelectorAll(".job") and querySelectorAll(".card") on the container:
\* the positions in markup of the elements with that class.
JobSections(m) == {i \in 1..Len(m) : m[i].el \in {"article.job", "div.job"}}
CardSections(m) == {i \in 1..Len(m) : m[i].el = "section.card"}

adjustPageBreaks(r) ==
  [r EXCEPT !.hinted = @ \cup JobSections(r.markup),
            !.spaced = @ \cup CardSections(r.markup)]

optimizeForPrint(r) == adjustPageBreaks([r EXCEPT !.printOptimized = TRUE])

\* Mutant: the print-spacing class is left on the cards.
restoreFromPrint_KeepsSpacing(r) ==
  [r EXCEPT !.printOptimized = FALSE, !.hinted = @ \ JobSections(r.markup)]

\* restoreFromPrint: the class comes off the container, the style comes off
\* every .job, the class comes off every .print-spacing element.
restoreFromPrint(r) ==
  [r EXCEPT !.printOptimized = FALSE,
            !.hinted = @ \ JobSections(r.markup),
            !.spaced = @ \ r.spaced]

(* ------------------------------ actions ------------------------------- *)

\* DOMContentLoaded: new ResumeSwitcher(); init() runs up to its first await.
ConstructSwitcher ==
  /\ "resume-switcher" \in scripts
  /\ ~domContentLoaded
  /\ switcherPc = "none"
  /\ switcherPc' = "fetching"
  /\ UNCHANGED <<worldVars, chainRest, userChanges, resumesData, manifestFailed,
                 selectOptions, readyListener, readyHandled, readyBeforeWatchdog,
                 watchdog, rendererRest>>
  /\ UNCHANGED <<documentVars, themeVars>>

\* The rest of init(), once fetch("data/resumes.json") has settled: the end of
\* loadResumesData, populateResumeOptions, setupEventListeners, and either
\* setInitialResume or the readiness listener and the watchdog timer. An
\* exception out of loadResumesData would end init() in its catch (line 62).
ManifestSettles ==
  \E response \in ManifestResponses :
    LET loaded == loadResumesData(response)
        options == populateResumeOptions(loaded.data)
        w0 == [World EXCEPT !.resumesData = loaded.data, !.selectOptions = options,
                            !.selectValue = SelectDefault(options)]
    IN /\ switcherPc = "fetching"
       /\ manifestFailed' = loaded.failed
       /\ IF loaded.raised
          THEN /\ switcherPc' = "failed"
               /\ Commit(World)
               /\ UNCHANGED <<resumesData, selectOptions, readyListener, watchdog>>
          ELSE /\ switcherPc' = "initialized"
               /\ resumesData' = loaded.data
               /\ selectOptions' = options
               /\ IF windowResumeRenderer
                  THEN /\ Commit(setInitialResume(w0))
                       /\ UNCHANGED <<readyListener, watchdog>>
                  ELSE /\ Commit(w0)
                       /\ readyListener' = TRUE
                       /\ watchdog' = "armed"
       /\ UNCHANGED <<chainRest, userChanges, readyHandled, readyBeforeWatchdog,
                      rendererRest>>
       /\ UNCHANGED <<documentVars, themeVars>>

\* Mutant: the timer callback does not resolve the initial resume.
WatchdogFires_Idle ==
  /\ watchdog = "armed"
  /\ watchdog' = "fired"
  /\ Commit(World)
  /\ UNCHANGED <<chainRest, userChanges, switcherPc, resumesData, manifestFailed,
                 selectOptions, readyListener, readyHandled, readyBeforeWatchdog,
                 rendererRest>>
  /\ UNCHANGED <<documentVars, themeVars>>

\* The 2000 ms timer of init().
WatchdogFires ==
  /\ watchdog = "armed"
  /\ watchdog' = "fired"
  /\ IF ~Truthy(currentResume)
     THEN Commit(setInitialResume(World))
     ELSE Commit(World)
  /\ UNCHANGED <<chainRest, userChanges, switcherPc, resumesData, manifestFailed,
                 selectOptions, readyListener, readyHandled, readyBeforeWatchdog,
                 rendererRest>>
  /\ UNCHANGED <<documentVars, themeVars>>

\* The change listener of #resumeSelect: the user picks another option.
SelectChange ==
  \E v \in Range(selectOptions) :
    /\ switcherPc = "initialized"
    /\ userChanges < MaxUserChanges
    /\ v # selectValue
    /\ userChanges' = userChanges + 1
    /\ Commit(changeResume([World EXCEPT !.selectValue = v], v))
    /\ UNCHANGED <<chainRest, switcherRest, rendererRest>>
    /\ UNCHANGED <<documentVars, themeVars>>

\* window.changeResume(), the backward-compatible entry point used by inline
\* markup: changeResume(select.value) for the option the select shows.
LegacyChangeResume ==
  /\ switcherPc = "initialized"
  /\ userChanges < MaxUserChanges
  /\ selectValue \in Range(selectOptions)
  /\ userChanges' = userChanges + 1
  /\ Commit(changeResume(World, selectValue))
  /\ UNCHANGED <<chainRest, switcherRest, rendererRest>>
  /\ UNCHANGED <<documentVars, themeVars>>

\* Mutant: initResumeRenderer does not look whether a renderer exists.
rendererMissing_Always == TRUE

\* initResumeRenderer, line 275: `if (!resumeRenderer)`.
rendererMissing == ~resumeRenderer

\* Mutant: the renderer is published on window only after the dispatch.
registerRenderer_Late(w) == w

\* initResumeRenderer, line 279: window.resumeRenderer = resumeRenderer, before
\* resumeRendererReady is dispatched.
registerRenderer(w) == [w EXCEPT !.windowResumeRenderer = TRUE]

\* initResumeRenderer, called by one of its start triggers (the
\* DOMContentLoaded listener, or the 1 ms timer): when no renderer exists yet,
\* construct one, whose init() starts fetching the default resume; publish it
\* on window; dispatch resumeRendererReady, whose listener (if subscribed) runs
\* setInitialResume before the dispatch returns.
InitResumeRenderer ==
  \E trigger \in startTriggers :
    LET w0 == registerRenderer([World EXCEPT !.fetches = Append(@, ExamplePath)])
    IN /\ "resume-renderer" \in scripts
       /\ startTriggers' = startTriggers \ {trigger}
       /\ IF rendererMissing
          THEN /\ resumeRenderer' = TRUE
               /\ constructions' = constructions + 1
               /\ windowResumeRenderer' = TRUE
               /\ slotAssigns' = slotAssigns + 1
               /\ rendererEver' = TRUE
               /\ readyDispatched' = readyDispatched + 1
               /\ rendersAtReady' = renders
               /\ IF readyListener
                  THEN /\ Commit(setInitialResume(w0))
                       /\ readyHandled' = TRUE
                       /\ readyBeforeWatchdog' = (watchdog = "armed")
                  ELSE /\ Commit(w0)
                       /\ UNCHANGED <<readyHandled, readyBeforeWatchdog>>
          ELSE UNCHANGED <<worldVars, resumeRenderer, constructions,
                           windowResumeRenderer, slotAssigns, rendererEver,
                           readyDispatched, rendersAtReady, readyHandled,
                           readyBeforeWatchdog>>
       /\ UNCHANGED <<pageLoad, resumeParam, userChanges, switcherPc, resumesData,
                      manifestFailed, selectOptions, readyListener, watchdog,
                      currentResumeData, containerMarkup, markup, lastLoad, renders,
                      printVars>>
       /\ UNCHANGED <<documentVars, themeVars>>

\* loadResumeData after its await: the i-th outstanding fetch settles.
FetchSettles ==
  \E i \in 1..Len(fetches), response \in ResumeResponses :
    LET resumePath == fetches[i]
        rest == SubSeq(fetches, 1, i - 1) \o SubSeq(fetches, i + 1, Len(fetches))
        done == loadResumeData(Renderer, resumePath, response)
    IN /\ fetches' = rest
       /\ currentResumeData' = done.renderer.currentResumeData
       /\ containerMarkup' = done.renderer.containerMarkup
       /\ markup' = done.renderer.markup
       /\ hinted' = done.renderer.hinted
       /\ spaced' = done.renderer.spaced
       /\ renders' = done.renderer.renders
       /\ lastLoad' = [response |-> response, returned |-> done.returned,
                       diagnostic |-> done.diagnostic, raised |-> done.raised]
       /\ UNCHANGED <<storedResume, selectValue, currentResume, lastInitial,
                      delegations, initDelegations, errorPanels, locationAssigns,
                      pendingNav, storageWrites, eventCount, lastEvent, chainRest,
                      userChanges,
                      switcherRest, startTriggers, constructions, slotAssigns,
                      resumeRenderer, windowResumeRenderer,
                      readyDispatched, rendersAtReady, printOptimized, printStage,
                      prints>>
       /\ UNCHANGED <<documentVars, themeVars>>

\* The beforeprint listener of setupPrintHandlers.
BeforePrint ==
  LET r == optimizeForPrint(Renderer)
  IN /\ resumeRenderer
     /\ printStage # "optimized"
     /\ prints < MaxPrints
     /\ prints' = prints + 1
     /\ printStage' = "optimized"
     /\ printOptimized' = r.printOptimized
     /\ hinted' = r.hinted
     /\ spaced' = r.spaced
     /\ UNCHANGED <<worldVars, chainRest, userChanges, switcherRest, startTriggers,
                    constructions, slotAssigns, resumeRenderer, windowResumeRenderer,
                    currentResumeData, containerMarkup, markup, lastLoad, renders,
                    readyDispatched, rendersAtReady>>
     /\ UNCHANGED <<documentVars, themeVars>>

\* The afterprint listener of setupPrintHandlers.
AfterPrint ==
  LET r == restoreFromPrint(Renderer)
  IN /\ resumeRenderer
     /\ printStage = "optimized"
     /\ printStage' = "restored"
     /\ printOptimized' = r.printOptimized
     /\ hinted' = r.hinted
     /\ spaced' = r.spaced
     /\ UNCHANGED <<worldVars, chainRest, userChanges, switcherRest, startTriggers,
                    constructions, slotAssigns, resumeRenderer, windowResumeRenderer,
                    currentResumeData, containerMarkup, markup, lastLoad, renders,
                    readyDispatched, rendersAtReady, prints>>
     /\ UNCHANGED <<documentVars, themeVars>>

\* The navigation started by window.location.href = "?resume=..." commits: the
\* document is replaced; localStorage survives, the query string is the new one.
PageReload ==
  /\ pendingNav # Null
  /\ pageLoad < MaxLoads
  /\ pageLoad' = pageLoad + 1
  /\ resumeParam' = pendingNav
  /\ pendingNav' = Null
  /\ switcherPc' = "none"
  /\ resumesData' = NullData
  /\ manifestFailed' = FALSE
  /\ selectOptions' = <<>>
  /\ selectValue' = ""
  /\ currentResume' = Null
  /\ readyListener' = FALSE
  /\ readyHandled' = FALSE
  /\ readyBeforeWatchdog' = FALSE
  /\ watchdog' = "unset"
  /\ lastInitial' = NoInitial
  /\ startTriggers' = IF "resume-renderer" \in scripts
                      THEN TriggersAt(readyState, domContentLoaded) ELSE {}
  /\ constructions' = 0
  /\ slotAssigns' = 0
  /\ resumeRenderer' = FALSE
  /\ windowResumeRenderer' = FALSE
  /\ currentResumeData' = Null
  /\ containerMarkup' = Null
  /\ markup' = <<>>
  /\ lastLoad' = NoLoad
  /\ printOptimized' = FALSE
  /\ hinted' = {}
  /\ spaced' = {}
  /\ printStage' = "idle"
  /\ UNCHANGED prints
  /\ fetches' = <<>>
  /\ renders' = 0
  /\ readyDispatched' = 0
  /\ rendersAtReady' = 0
  /\ delegations' = 0
  /\ initDelegations' = 0
  /\ errorPanels' = 0
  /\ locationAssigns' = 0
  /\ storageWrites' = 0
  /\ eventCount' = 0
  /\ lastEvent' = NoEvent
  /\ UNCHANGED <<storedResume, rendererEver, userChanges>>
  /\ UNCHANGED <<documentVars, themeVars>>

\* A page load starts with nothing constructed.
ResumeIdle ==
  /\ pageLoad = 1
  /\ rendererEver = FALSE
  /\ userChanges = 0
  /\ switcherPc = "none"
  /\ resumesData = NullData
  /\ manifestFailed = FALSE
  /\ selectOptions = <<>>
  /\ selectValue = ""
  /\ currentResume = Null
  /\ readyListener = FALSE
  /\ readyHandled = FALSE
  /\ readyBeforeWatchdog = FALSE
  /\ watchdog = "unset"
  /\ lastInitial = NoInitial
  /\ startTriggers = IF "resume-renderer" \in scripts
                     THEN TriggersAt(readyState, domContentLoaded) ELSE {}
  /\ constructions = 0
  /\ slotAssigns = 0
  /\ resumeRenderer = FALSE
  /\ windowResumeRenderer = FALSE
  /\ currentResumeData = Null
  /\ containerMarkup = Null
  /\ markup = <<>>
  /\ lastLoad = NoLoad
  /\ printOptimized = FALSE
  /\ hinted = {}
  /\ spaced = {}
  /\ printStage = "idle"
  /\ prints = 0
  /\ fetches = <<>>
  /\ renders = 0
  /\ readyDispatched = 0
  /\ rendersAtReady = 0
  /\ delegations = 0
  /\ initDelegations = 0
  /\ errorPanels = 0
  /\ locationAssigns = 0
  /\ storageWrites = 0
  /\ pendingNav = Null
  /\ eventCount = 0
  /\ lastEvent = NoEvent

ThemeIdle ==
  /\ themeChanges = 0
  /\ themePc = "none"
  /\ themesData = NullThemes
  /\ themeManifestFailed = FALSE
  /\ themeOptions = <<>>
  /\ themeSelectValue = EmptyTheme
  /\ currentTheme = NullTheme
  /\ stylesheetHref = <<>>
  /\ bodyDataTheme = Seg("")
  /\ themeStorageWrites = 0
  /\ themeEventCount = 0
  /\ lastThemeEvent = NoThemeEvent
  /\ lastInitialTheme = NoInitialTheme
  /\ themeErrors = 0

\* A chain of page loads starts on a page with the resume scripts, or on one
\* with the theme script, with any URL parameter and any stored selection, or
\* on one with the renderer alone, served any resume document.
Init ==
  /\ scripts \in PageScripts
  /\ readyState \in ReadyStates
  /\ domContentLoaded \in BOOLEAN
  /\ readyState = "loading" => ~domContentLoaded
  /\ readyState = "complete" => domContentLoaded
  /\ served \in IF scripts = {"resume-renderer"} THEN Documents ELSE {DefaultDocument}
  /\ IF "resume-switcher" \in scripts
     THEN /\ resumeParam \in UrlValues
          /\ storedResume \in StoredValues
     ELSE /\ resumeParam = Null
          /\ storedResume = Null
  /\ IF "theme-switcher" \in scripts
     THEN /\ themeParam \in ThemeInputs
          /\ storedTheme \in ThemeInputs
          /\ pdfHandler \in BOOLEAN
     ELSE /\ themeParam = NullTheme
          /\ storedTheme = NullTheme
          /\ pdfHandler = FALSE
  /\ ResumeIdle
  /\ ThemeIdle

Next ==
  \/ ConstructSwitcher
  \/ ManifestSettles
  \/ WatchdogFires
  \/ SelectChange
  \/ LegacyChangeResume
  \/ InitResumeRenderer
  \/ FetchSettles
  \/ PageReload
  \/ ConstructThemeSwitcher
  \/ ThemeManifestSettles
  \/ ThemeSelectChange
  \/ LegacyChangeTheme

Spec == Init /\ [][Next]_vars

\* The page with a timer that fires: the 2000 ms timer of init(), once set, runs
\* its callback unless the page is left first. Nothing is assumed of the
\* renderer, the network or the user. Progress is followed from a smaller
\* choice of URL parameters and stored selections: absent, matching an entry,
\* matching none.
FairUrlValues == {Null, "a.json", UnknownFile}
FairStoredValues == {Null, "b.json"}
FairInit ==
  /\ Init
  /\ "resume-switcher" \in scripts =>
       (resumeParam \in FairUrlValues /\ storedResume \in FairStoredValues)
FairSpec == FairInit /\ [][Next]_vars /\ WF_vars(WatchdogFires)

\* One load of the page that includes the three scripts, followed from one
\* start: a resume parameter that matches no entry (so the switcher never
\* leaves the page), nothing stored, the document still loading.
AllScripts == {"resume-switcher", "resume-renderer", "theme-switcher"}
FrameInit ==
  /\ scripts = AllScripts
  /\ readyState = "loading"
  /\ domContentLoaded = FALSE
  /\ served = DefaultDocument
  /\ resumeParam = UnknownFile
  /\ storedResume = Null
  /\ themeParam = NullTheme
  /\ storedTheme = NullTheme
  /\ pdfHandler = FALSE
  /\ ResumeIdle
  /\ ThemeIdle
FrameNext ==
  \/ ConstructSwitcher
  \/ ManifestSettles
  \/ WatchdogFires
  \/ SelectChange
  \/ LegacyChangeResume
  \/ InitResumeRenderer
  \/ FetchSettles
  \/ ConstructThemeSwitcher
  \/ ThemeManifestSettles
  \/ ThemeSelectChange
  \/ LegacyChangeTheme
FrameSpec == FrameInit /\ [][FrameNext]_vars

\* Printing: one load of a page with the renderer, alone and served any resume
\* document, or with the switcher (whose changes make the renderer render
\* again) and served the default one; the user prints up to MaxPrints times.
PrintInit ==
  /\ Init
  /\ "resume-renderer" \in scripts
  /\ readyState = "loading"
  /\ "resume-switcher" \in scripts => (resumeParam = UnknownFile /\ storedResume = Null)
PrintNext ==
  \/ ConstructSwitcher
  \/ ManifestSettles
  \/ WatchdogFires
  \/ SelectChange
  \/ LegacyChangeResume
  \/ InitResumeRenderer
  \/ FetchSettles
  \/ BeforePrint
  \/ AfterPrint
PrintSpec == PrintInit /\ [][PrintNext]_vars

(* ------------------------------ claims -------------------------------- *)

\* C1: startup race. When the switcher subscribed to resumeRendererReady
\* before a renderer was registered, and readiness was then dispatched while the
\* watchdog was still armed, the switcher has delegated its initial resume to
\* the renderer exactly once (setInitialResume made exactly one
\* loadResumeData call), from the readiness handler on and whatever follows on
\* the page. Stated for a page that is not being navigated away from and for
\* an initial resume other than the default one the renderer fetches by itself.
C1_InitialDelegatedOnce ==
  (readyHandled /\ readyBeforeWatchdog /\ pendingNav = Null
     /\ lastInitial.chosen # ExamplePath)
    => initDelegations = 1

ChangeArgs == ResumeFiles \cup {UnknownFile, ExamplePath}

\* The effects of one changeResume(p) call that took world w to world w1: the
\* selection update, one storage write, one of delegation / navigation / error
\* panel, and one resumeChanged event.
ChangedOnce(w, w1, p) ==
  /\ w1.currentResume = p
  /\ w1.storedResume = p
  /\ w1.storageWrites = w.storageWrites + 1
  /\ (w1.delegations - w.delegations) + (w1.locationAssigns - w.locationAssigns)
       + (w1.errorPanels - w.errorPanels) = 1
  /\ w1.eventCount = w.eventCount + 1

\* C3 as stated: from any state and for any path p, two changeResume(p) calls
\* in a row make the update, the storage write, the delegation (or navigation,
\* or error panel) and the dispatch exactly once in total, and the second call
\* changes nothing.
C3_TwiceIsExactlyOnce ==
  \A p \in ChangeArgs :
    LET w1 == changeResume(World, p)
        w2 == changeResume(w1, p)
    IN w2 = w1 /\ ChangedOnce(World, w2, p)

\* C3, amended: two changeResume(p) calls in a row make those effects exactly
\* once in total when p differs from the current selection and not at all when
\* p is the current selection; in both cases the second call changes nothing.
C3_TwiceIsAtMostOnce ==
  \A p \in ChangeArgs :
    LET w1 == changeResume(World, p)
        w2 == changeResume(w1, p)
    IN /\ w2 = w1
       /\ IF currentResume = p THEN w1 = World ELSE ChangedOnce(World, w2, p)

\* C3's case: setInitialResume changed to a resume, with the renderer
\* registered, and window.changeResume() (or the change listener) was called
\* for the same resume: two calls, one delegation, one resumeChanged event.
C3_Witness ==
  /\ pageLoad = 1
  /\ userChanges = 1
  /\ lastInitial.called
  /\ delegations = 1
  /\ eventCount = 1
  /\ storageWrites = 1

\* C6: when the fetch of data/resumes.json fails, loadResumesData raises
\* nothing (init() completes), the dropdown holds an option whose value is the
\* example resume path, and the initial resume resolves to that path.
C6_ResumeFallbackManifest ==
  manifestFailed =>
    /\ switcherPc = "initialized"
    /\ Len(selectOptions) >= 1
    /\ ExamplePath \in Range(selectOptions)
    /\ lastInitial.called => lastInitial.chosen = ExamplePath

\* C6's case: the manifest fetch failed with a URL parameter and a stored value
\* that match nothing, and the initial resume was resolved.
C6_Witness ==
  /\ manifestFailed
  /\ lastInitial = [called |-> TRUE, param |-> "a.json", stored |-> "b.json",
                    chosen |-> ExamplePath]
  /\ selectValue = ExamplePath

C9_NotifiedAfterStateAndStorage ==
  /\ lastEvent.type # Null =>
       /\ lastEvent.seenCurrent = lastEvent.resumePath
       /\ lastEvent.seenStored = lastEvent.resumePath
  /\ lastThemeEvent.type # Null =>
       /\ lastThemeEvent.seenCurrent = lastThemeEvent.themePath
       /\ lastThemeEvent.seenStored = lastThemeEvent.themePath

\* C9's case: a resumeChanged event was dispatched for a change that replaced
\* an earlier, different stored selection.
C9_Witness ==
  /\ eventCount >= 2
  /\ lastEvent.type = "resumeChanged"
  /\ lastEvent.resumePath = "b.json"
  /\ delegations >= 1

\* C10: resumeRendererReady is not dispatched, and the renderer not registered
\* on window, before the renderer's first successful render has completed.
C10_ReadyAfterFirstRender ==
  (readyDispatched > 0 \/ windowResumeRenderer) => rendersAtReady >= 1

\* The stylesheet path the manifest associates with the theme a key names:
\* css/<name>/theme.css.
ManifestPath(themeName) == <<Seg("css"), themeName, CssSeg("theme")>>

\* C4: for every key k with themeExists(k), after changeTheme(k) the
\* current-theme accessor names k and the stylesheet href is the path the
\* manifest associates with k's theme.
C4_ThemeRoundTrip ==
  (currentTheme # NullTheme /\ themeExists(ThemeWorld, currentTheme)) =>
    /\ getCurrentThemeInfo.name = currentTheme
    /\ getCurrentThemeInfo.path = ManifestPath(currentTheme[1])

\* C5: when the fetch of data/themes.json fails, the theme dropdown holds at
\* least one option once the theme switcher's init() has run.
C5_ThemeFallbackManifest ==
  (themeManifestFailed /\ themePc \in {"initialized", "failed"}) =>
    Len(themeOptions) >= 1

\* C11: whichever of the renderer's start triggers fire, and in whatever
\* order, a page constructs at most one ResumeRenderer, assigns
\* window.resumeRenderer at most once and dispatches resumeRendererReady at most
\* once; and exactly once each as soon as one trigger has fired.
C11_ReadyExactlyOnce ==
  /\ constructions <= 1
  /\ slotAssigns <= 1
  /\ readyDispatched <= 1
  /\ ("resume-renderer" \in scripts
        /\ startTriggers # TriggersAt(readyState, domContentLoaded))
       => (constructions = 1 /\ slotAssigns = 1 /\ readyDispatched = 1
           /\ resumeRenderer /\ windowResumeRenderer)

\* C11's case: the document was interactive when the script ran, so both the
\* DOMContentLoaded listener and the 1 ms timer have called initResumeRenderer.
C11_Witness ==
  /\ readyState = "interactive"
  /\ ~domContentLoaded
  /\ "resume-renderer" \in scripts
  /\ startTriggers = {}
  /\ constructions = 1
  /\ readyDispatched = 1

\* C12: once the switcher's manifest load has finished, whatever its outcome,
\* the switcher eventually has a current resume, even when no renderer is ever
\* registered and resumeRendererReady is never dispatched, provided the
\* 2-second timer fires.
C12_WatchdogProgress ==
  (switcherPc = "initialized") ~> Truthy(currentResume)

\* C12's case: no renderer was registered on any page of the chain, the
\* watchdog has fired and the switcher has a current resume.
C12_Witness ==
  /\ ~rendererEver
  /\ readyListener
  /\ ~readyHandled
  /\ watchdog = "fired"
  /\ lastInitial.called
  /\ Truthy(currentResume)

\* C13: a loadResumeData call whose fetch fails (transport error or non-2xx
\* status) returns an empty object, renders nothing, and leaves the renderer's
\* current resume data and the container's markup as they were.
C13_FailedLoadKeepsPrevious ==
  [][(Len(fetches') < Len(fetches) /\ lastLoad'.response \in {"transport", "status"})
       => (/\ lastLoad'.returned = getFallbackResumeData
           /\ ~lastLoad'.raised
           /\ renders' = renders
           /\ currentResumeData' = currentResumeData
           /\ containerMarkup' = containerMarkup)]_vars

\* C13's case: a.json was rendered, then the load of another resume failed
\* with a non-2xx status: the container still shows a.json.
C13_Witness ==
  /\ lastLoad.response = "status"
  /\ fetches = <<>>
  /\ currentResume = "b.json"
  /\ currentResumeData = "a.json"
  /\ containerMarkup = "a.json"

\* C17: when the fetched document lacks a field renderResume dereferences,
\* the error raised while rendering leaves loadResumeData uncaught: no
\* fetch-failure diagnostic is logged and no empty object is returned.
C17_MalformedPropagates ==
  lastLoad.response = "malformed" =>
    /\ lastLoad.raised
    /\ ~lastLoad.diagnostic
    /\ lastLoad.returned # getFallbackResumeData

\* C14: once changeTheme has changed the theme, the body's data-theme
\* attribute is the theme key: the value the current-theme accessor reports and
\* the one persisted as selectedTheme. (data-theme holds one path segment; it
\* is compared as the one-segment path it spells.)
C14_BodyTagIsThemeKey ==
  currentTheme # NullTheme =>
    /\ <<bodyDataTheme>> = getCurrentThemeInfo.name
    /\ <<bodyDataTheme>> = storedTheme

\* The themes of the manifest a key can match: a key matches the theme its
\* first segment names.
MatchesTheme(k) ==
  k # NullTheme /\ \E i \in 1..Len(themesData.themes) : k[1] = Seg(themesData.themes[i])

\* C15: setInitialTheme picks the theme URL parameter when it matches a theme
\* of the manifest, else the stored selectedTheme when it matches one, else the
\* key of the manifest's first theme, else the hardcoded cyberpunk/theme; and
\* it applies its pick through changeTheme (before any user change the pick is
\* the current theme, persisted, announced by one themeChanged event).
C15_InitialThemePrecedence ==
  lastInitialTheme.called =>
    LET c == lastInitialTheme
        n == Len(themesData.themes)
    IN /\ MatchesTheme(c.param) => c.chosen = c.param
       /\ (~MatchesTheme(c.param) /\ MatchesTheme(c.stored)) => c.chosen = c.stored
       /\ (~MatchesTheme(c.param) /\ ~MatchesTheme(c.stored) /\ n > 0)
            => c.chosen = <<Seg(themesData.themes[1]), Seg("theme")>>
       /\ (~MatchesTheme(c.param) /\ ~MatchesTheme(c.stored) /\ n = 0)
            => c.chosen = <<Seg("cyberpunk"), Seg("theme")>>
       /\ themeChanges = 0 =>
            (currentTheme = c.chosen /\ storedTheme = c.chosen /\ themeEventCount = 1
             /\ lastThemeEvent.themePath = c.chosen)

\* C15's case: manifest {dark, light} (dark first), URL parameter light/theme,
\* stored value dark/theme.
C15_Witness ==
  /\ lastInitialTheme =
       [called |-> TRUE, param |-> <<Seg("light"), Seg("theme")>>,
        stored |-> <<Seg("dark"), Seg("theme")>>,
        chosen |-> <<Seg("light"), Seg("theme")>>]
  /\ themesData.themes = <<"dark", "light">>
  /\ currentTheme = <<Seg("light"), Seg("theme")>>

\* C16: every changeResume(p) call with p different from the current
\* selection (it is the call that writes selectedResume) dispatches exactly one
\* resumeChanged event whose detail carries p, whichever of its three branches
\* it takes: the renderer is registered, or it is not and the URL has no resume
\* parameter (a navigation is started), or it is not and the URL has one (the
\* error panel).
C16_ChangeAlwaysDispatches ==
  [][(storageWrites' = storageWrites + 1)
       => (/\ currentResume' # currentResume
           /\ eventCount' = eventCount + 1
           /\ lastEvent'.type = "resumeChanged"
           /\ lastEvent'.resumePath = currentResume'
           /\ (delegations' - delegations) + (locationAssigns' - locationAssigns)
                + (errorPanels' - errorPanels) = 1)]_vars

\* C16's case: a chain that went through the three branches: the first page
\* started the navigation, the second put up the error panel and, once the
\* renderer had registered, delegated a user's change; each dispatched.
C16_Witness ==
  /\ pageLoad = 2
  /\ errorPanels >= 1
  /\ delegations >= 1
  /\ locationAssigns = 0
  /\ eventCount = errorPanels + delegations
  /\ lastEvent.resumePath = currentResume

\* The elements of a markup with a given tag and class, in document order.
Elements(m, el) == SelectSeq(m, LAMBDA x : x.el = el)

\* The skill sections: the sidebar's sections between the personal details
\* and the qualities sections.
SkillSections(m) ==
  LET sections == Elements(m, "div.section")
  IN IF Len(sections) < 2 THEN <<>> ELSE SubSeq(sections, 2, Len(sections) - 1)

\* C18: the markup renderResume produces for a document with N experience
\* entries, M skill categories and K qualities has exactly N job blocks
\* (article.job), M skill sections and K quality tags (span.pill), each in the
\* document's order.
C18_RenderCompleteness ==
  (renders > 0 /\ lastLoad.response = "ok") =>
    /\ [i \in 1..Len(Elements(markup, "article.job")) |->
          Elements(markup, "article.job")[i].text] = served.experience
    /\ [i \in 1..Len(SkillSections(markup)) |-> SkillSections(markup)[i].text]
         = [i \in 1..Len(served.skills) |-> Title(served.skills[i])]
    /\ [i \in 1..Len(Elements(markup, "span.pill")) |->
          Elements(markup, "span.pill")[i].text] = served.qualities

\* C19: once every load the page has started (the renderer's own load of the
\* default resume and the loads requested through changeResume) has completed
\* successfully, the renderer holds and shows the resume at the switcher's
\* current selection, whatever the order in which the responses arrived.
C19_DisplayedMatchesSelection ==
  (resumeRenderer /\ delegations >= 1 /\ fetches = <<>>
     /\ renders = constructions + delegations)
    => (containerMarkup = currentResume /\ currentResumeData = currentResume)

\* C20: when the watchdog resolved the initial resume while no renderer was
\* registered, on a page whose URL carries a resume parameter (so the error
\* panel went up and no navigation started), and the renderer registered and
\* dispatched resumeRendererReady afterwards, the renderer has been asked to
\* load the switcher's current selection. Stated for a chain without user
\* changes and for a selection other than the default resume, which the
\* renderer fetches by itself.
C20_LateReadinessNotLost ==
  (watchdog = "fired" /\ readyHandled /\ ~readyBeforeWatchdog /\ userChanges = 0
     /\ Truthy(resumeParam) /\ errorPanels >= 1 /\ currentResume # ExamplePath)
    => delegations >= 1

\* C21: whenever resumeRendererReady has been dispatched on a page, a renderer
\* is registered on window, then and for the rest of the page's life; and a
\* changeResume call made from the readiness handler delegates to the renderer:
\* it starts no navigation and puts up no error panel.
C21_ReadyImpliesRenderer ==
  /\ [](readyDispatched > 0 => windowResumeRenderer)
  /\ [][(readyHandled' /\ ~readyHandled)
          => (/\ locationAssigns' = locationAssigns
              /\ errorPanels' = errorPanels
              /\ pendingNav' = pendingNav
              /\ eventCount' = eventCount + 1 => delegations' = delegations + 1)]_vars

\* C21's case: the readiness handler has run and its changeResume call was
\* delegated to the renderer.
C21_Witness ==
  /\ readyHandled
  /\ readyDispatched = 1
  /\ windowResumeRenderer
  /\ initDelegations = 1
  /\ errorPanels = 0
  /\ locationAssigns = 0

\* C22: with a PDF-export helper registered on window, a changeTheme call that
\* changes the theme raises no error, so setInitialTheme goes on to set the
\* dropdown's value and init() ends outside its catch block.
C22_PdfHelperNotified ==
  (pdfHandler /\ themePc \in {"initialized", "failed"}) =>
    /\ themeErrors = 0
    /\ themePc = "initialized"
    /\ lastInitialTheme.called =>
         (themeChanges = 0 =>
            themeSelectValue = SelectAssignTheme(themeOptions, lastInitialTheme.chosen))

\* C23: whatever the theme URL parameter and the stored selectedTheme hold,
\* the key setInitialTheme applies is the value of an option of the theme
\* dropdown or the hardcoded cyberpunk/theme; no other value becomes the
\* current theme.
C23_InitialThemeIsListed ==
  lastInitialTheme.called =>
    /\ lastInitialTheme.chosen \in
         Range(themeOptions) \cup {<<Seg("cyberpunk"), Seg("theme")>>}
    /\ themeChanges = 0 =>
         currentTheme \in Range(themeOptions) \cup {<<Seg("cyberpunk"), Seg("theme")>>}

\* C24: for every manifest (one loaded with zero entries included), URL
\* parameter and stored value, once setInitialResume has returned the value the
\* resume dropdown shows is the switcher's current resume.
C24_DropdownSynchronised ==
  lastInitial.called => selectValue = currentResume

\* C25: between any two turns of the event loop, a switcher whose current
\* selection is set has that selection in storage: selectedResume is the
\* current resume, selectedTheme the current theme.
C25_PersistenceMirrorsSelection ==
  /\ Truthy(currentResume) => storedResume = currentResume
  /\ currentTheme # NullTheme => storedTheme = currentTheme

\* C25's case: a page that started with a.json stored, resolved it, and whose
\* user then changed to b.json.
C25_Witness ==
  /\ lastInitial.called
  /\ lastInitial.stored = "a.json"
  /\ lastInitial.chosen = "a.json"
  /\ userChanges = 1
  /\ currentResume = "b.json"
  /\ storedResume = "b.json"

\* What each side owns of the selections.
themeSelection == <<currentTheme, storedTheme, stylesheetHref, bodyDataTheme>>
resumeSelection ==
  <<currentResume, storedResume, currentResumeData, containerMarkup, resumeParam,
    pendingNav, locationAssigns>>

\* C26: on a page, no step of the resume switcher or of the renderer (a step
\* that changes any of their state) changes the current theme, the stored
\* selectedTheme, the stylesheet href or the body's data-theme; and no step of
\* the theme switcher changes the current resume, the stored selectedResume,
\* the renderer's data or the page URL.
C26_SingleWriter ==
  [][pageLoad' = pageLoad =>
       /\ resumeVars' # resumeVars => themeSelection' = themeSelection
       /\ themeVars' # themeVars => resumeSelection' = resumeSelection]_vars

\* C26's case: a page on which both switchers have resolved their initial
\* selection, the renderer has rendered, and the user has changed both the
\* resume and the theme.
C26_Witness ==
  /\ scripts = AllScripts
  /\ lastInitial.called
  /\ lastInitialTheme.called
  /\ eventCount >= 2
  /\ themeEventCount >= 2
  /\ renders >= 1
  /\ delegations >= 1

\* C27: after optimizeForPrint followed by restoreFromPrint, with renders
\* completing before, between or after the two, the container does not carry
\* the print-optimized class, no job or education entry carries the
\* no-page-break hint and no card carries the print-spacing class (until the
\* page is printed again).
C27_PrintRoundTrip ==
  printStage = "restored" => (~printOptimized /\ hinted = {} /\ spaced = {})

\* C27's case: the page was printed twice and restored, several renders have
\* completed and one load is still under way.
C27_Witness ==
  /\ printStage = "restored"
  /\ prints = 2
  /\ renders >= 2
  /\ fetches # <<>>
  /\ JobSections(markup) # {}

====
